---- MODULE Spec2Model ----
(***************************************************************************)
(* Model of torchvision/prototype/transforms/_color.py: ColorJitter (range *)
(* validation, parameter sampling, dispatch), _RandomChannelShuffle,       *)
(* RandomPhotometricDistort and RandomEqualize.                            *)
(*                                                                         *)
(* Numbers.  A Python float is modelled as a binary floating-point number  *)
(* of reduced precision: an integer n stands for n / One, and only the     *)
(* integers with at most MantBits significant bits are floats.  The sum    *)
(* or difference of two floats is rounded to the nearest float, ties to    *)
(* even, as IEEE-754 does.  NaN is not modelled: every number is ordered.  *)
(***************************************************************************)
EXTENDS Integers, Sequences, FiniteSets

\* self    the transform constructed, or None
\* args    the arguments of the _check_input call under study, or None
\* raised  the exception a constructor or _check_input raised, or "none"
\* sample  the sample of the current call; inpt the leaf _transform was given
\* params  the dictionary _get_params returned
\* output  what _transform (or _check_input) returned
\* calls   the pixel operations or sub-transforms the current call invoked, in order
\* pc      start, checked, failed, ready, sampled or done
VARIABLES self, args, raised, sample, inpt, params, output, calls, pc

vars == <<self, args, raised, sample, inpt, params, output, calls, pc>>

\* ----------------------------------------------------------------- bounds
\* Significant bits of a float (53 in CPython).
MantBits == 3
\* Largest number of channels of an image.
MaxChannels == 3

\* ------------------------------------------------------------ float layer
RECURSIVE Pow2(_)
Pow2(k) == IF k <= 0 THEN 1 ELSE 2 * Pow2(k - 1)

\* 1.0 in units: the spacing of the floats is 4 units just above 1.0 and
\* 2 units just below it, so the unit itself is a float below half of either.
One == Pow2(MantBits + 1)
Half == One \div 2
Quarter == One \div 4
\* float("inf"): larger than every finite number of the model.
Inf == One * One

Abs(n) == IF n < 0 THEN -n ELSE n

RECURSIVE BitLen(_)
BitLen(a) == IF a <= 0 THEN 0 ELSE 1 + BitLen(a \div 2)

\* The spacing of the floats around magnitude a.
Ulp(a) == IF a < Pow2(MantBits) THEN 1 ELSE Pow2(BitLen(a) - MantBits)

IsFloat(n) == Abs(n) = Inf \/ Abs(n) % Ulp(Abs(n)) = 0

\* The smallest positive float.
Tiny == Ulp(0)

\* a rounded to a multiple of the spacing q: to the nearest, a tie to the even one.
RoundWith(a, q) ==
    IF 2 * (a % q) < q THEN a - (a % q)
    ELSE IF 2 * (a % q) > q THEN a - (a % q) + q
    ELSE IF (a \div q) % 2 = 0 THEN a - (a % q) ELSE a - (a % q) + q

\* Round-to-nearest, ties-to-even, of the exact magnitude a.
RoundMag(a) == RoundWith(a, Ulp(a))

Sign(n) == IF n < 0 THEN -1 ELSE 1

\* The float nearest to the exact result n.
Round(n) == IF Abs(n) >= Inf THEN Sign(n) * Inf ELSE Sign(n) * RoundMag(Abs(n))

\* x + y and x - y on floats (an infinite operand absorbs a finite one).
FAdd(x, y) == IF Abs(x) = Inf THEN x
              ELSE IF Abs(y) = Inf THEN y
              ELSE Round(x + y)
FSub(x, y) == FAdd(x, -y)

Max(x, y) == IF x > y THEN x ELSE y

\* ------------------------------------------------------------ Python values
None == [ty |-> "None"]
PyFloat(n) == [ty |-> "float", v |-> n]
PyInt(k) == [ty |-> "int", v |-> k]
PySeq(s) == [ty |-> "seq", elems |-> s]
PyStr(n) == [ty |-> "str", len |-> n]
PyTuple(lo, hi) == [ty |-> "tuple", lo |-> lo, hi |-> hi]

\* The numeric value of a float or an int, in units.
Num(x) == IF x.ty = "int" THEN x.v * One ELSE x.v
\* float(x)
ToFloat(x) == Round(Num(x))

Return(v) == [kind |-> "return", val |-> v]
Raise(e) == [kind |-> "raise", exc |-> e]

\* len(value) of a sequence (a list or tuple of numbers, or a str).
PyLen(x) == IF x.ty = "seq" THEN Len(x.elems) ELSE x.len
IsSequence(x) == x.ty \in {"seq", "str"}

\* ------------------------------------------------ ColorJitter._check_input
\* The default arguments of _check_input, and those __init__ passes for hue.
DefaultCenter == One
DefaultBound == <<0, Inf>>
HueCenter == 0
HueBound == <<-Half, Half>>

\* A variant that takes every collapsed interval for a no-op, whatever its centre.
CheckInputResult_any_center(v0, v1, center) ==
    IF Num(v0) = Num(v1)
    THEN Return(None)
    ELSE Return(PyTuple(ToFloat(v0), ToFloat(v1)))

\* The last line: None if value[0] == value[1] == center, else the pair of floats.
CheckInputResult(v0, v1, center) ==
    IF Num(v0) = Num(v1) /\ Num(v1) = center
    THEN Return(None)
    ELSE Return(PyTuple(ToFloat(v0), ToFloat(v1)))

\* value[0] = max(value[0], 0.0), when clip_first_on_zero
ClipFirst(v0, clip_first_on_zero) == IF clip_first_on_zero THEN Max(v0, 0) ELSE v0

\* A variant that never clips the lower end of a single number's interval.
ColorJitter_check_input_no_clip(value, center, bound, clip_first_on_zero) ==
    IF value = None THEN Return(None)
    ELSE IF value.ty = "float" THEN
        IF value.v < 0 THEN Raise("ValueError")
        ELSE CheckInputResult(PyFloat(FSub(center, value.v)),
                              PyFloat(FAdd(center, value.v)), center)
    ELSE IF IsSequence(value) /\ PyLen(value) = 2 THEN
        IF value.ty = "str" THEN Raise("TypeError")
        ELSE IF ~(bound[1] <= Num(value.elems[1])
                  /\ Num(value.elems[1]) <= Num(value.elems[2])
                  /\ Num(value.elems[2]) <= bound[2])
        THEN Raise("ValueError")
        ELSE CheckInputResult(value.elems[1], value.elems[2], center)
    ELSE Raise("TypeError")

\* A variant that checks a pair against the bound but not its order.
ColorJitter_check_input_no_order(value, center, bound, clip_first_on_zero) ==
    IF value = None THEN Return(None)
    ELSE IF value.ty = "float" THEN
        IF value.v < 0 THEN Raise("ValueError")
        ELSE CheckInputResult(
                 PyFloat(ClipFirst(FSub(center, value.v), clip_first_on_zero)),
                 PyFloat(FAdd(center, value.v)), center)
    ELSE IF IsSequence(value) /\ PyLen(value) = 2 THEN
        IF value.ty = "str" THEN Raise("TypeError")
        ELSE IF ~(bound[1] <= Num(value.elems[1])
                  /\ Num(value.elems[2]) <= bound[2])
        THEN Raise("ValueError")
        ELSE CheckInputResult(value.elems[1], value.elems[2], center)
    ELSE Raise("TypeError")

ColorJitter_check_input(value, center, bound, clip_first_on_zero) ==
    IF value = None THEN Return(None)
    ELSE IF value.ty = "float" THEN
        IF value.v < 0 THEN Raise("ValueError")
        ELSE CheckInputResult(
                 PyFloat(ClipFirst(FSub(center, value.v), clip_first_on_zero)),
                 PyFloat(FAdd(center, value.v)), center)
    ELSE IF IsSequence(value) /\ PyLen(value) = 2 THEN
        \* comparing a number with an element of a str is a TypeError
        IF value.ty = "str" THEN Raise("TypeError")
        ELSE IF ~(bound[1] <= Num(value.elems[1])
                  /\ Num(value.elems[1]) <= Num(value.elems[2])
                  /\ Num(value.elems[2]) <= bound[2])
        THEN Raise("ValueError")
        ELSE CheckInputResult(value.elems[1], value.elems[2], center)
    ELSE Raise("TypeError")

\* ----------------------------------------------------- ColorJitter.__init__
\* The first of the results r that is a raise, if any.
FirstRaise(r) == r[CHOOSE k \in DOMAIN r :
                     r[k].kind = "raise" /\ \A j \in 1..(k - 1) : r[j].kind # "raise"]
AnyRaise(r) == \E k \in DOMAIN r : r[k].kind = "raise"

\* The transform holding the four checked ranges r, unless a check raised.
ColorJitter_new(r) ==
    IF AnyRaise(r) THEN FirstRaise(r)
    ELSE Return([cls |-> "ColorJitter", brightness |-> r[1].val, contrast |-> r[2].val,
                 saturation |-> r[3].val, hue |-> r[4].val])

\* The four calls of _check_input, in the order __init__ makes them; the first
\* that raises ends the construction.
ColorJitter_init(brightness, contrast, saturation, hue) ==
    ColorJitter_new(
        [k \in 1..4 |->
            ColorJitter_check_input(<<brightness, contrast, saturation, hue>>[k],
                                    IF k = 4 THEN HueCenter ELSE DefaultCenter,
                                    IF k = 4 THEN HueBound ELSE DefaultBound,
                                    k # 4)])

\* ------------------------------------------------------------ input domains
\* The finite floats of magnitude at most 2.0, and the two infinities.
FloatValues == {n \in (-2 * One)..(2 * One) : IsFloat(n)} \cup {-Inf, Inf}
\* The numbers the elements of a sequence are drawn from.
ElemValues ==
    {PyFloat(n) : n \in {-One, -Half, -Tiny, 0, Tiny, Half, One, One + Half, Inf}}
        \cup {PyInt(k) : k \in -1..2}
ConfigValues ==
    {None}
        \cup {PyFloat(n) : n \in FloatValues}
        \cup {PyInt(k) : k \in -1..2}
        \cup {PySeq(<<x, y>>) : x \in ElemValues, y \in ElemValues}
        \cup {PySeq(<<PyFloat(Half)>>), PySeq(<<PyFloat(Half), PyFloat(One), PyFloat(One + Half)>>)}
        \cup {PyStr(2), PyStr(3)}

\* --------------------------------------------------------------- actions
\* A call self._check_input(value, name, center, bound, clip_first_on_zero).
Call_check_input ==
    /\ pc = "start"
    /\ LET r == ColorJitter_check_input(args.value, args.center, args.bound,
                                        args.clip_first_on_zero)
       IN  /\ output' = (IF r.kind = "return" THEN r.val ELSE None)
           /\ raised' = (IF r.kind = "raise" THEN r.exc ELSE "none")
    /\ pc' = "checked"
    /\ UNCHANGED <<self, args, sample, inpt, params, calls>>

\* The end of a constructor whose result is r: the transform, or the exception.
Construct(r) ==
    /\ self' = (IF r.kind = "return" THEN r.val ELSE None)
    /\ raised' = (IF r.kind = "raise" THEN r.exc ELSE "none")
    /\ pc' = (IF r.kind = "return" THEN "ready" ELSE "failed")

\* ColorJitter(brightness, contrast, saturation, hue)
NewColorJitter(brightness, contrast, saturation, hue) ==
    /\ pc = "start"
    /\ Construct(ColorJitter_init(brightness, contrast, saturation, hue))
    /\ UNCHANGED <<args, sample, inpt, params, output, calls>>

ArgNames == <<"brightness", "contrast", "saturation", "hue">>

\* ColorJitter with the drawn value as the argument called args.name.
NewColorJitterOf ==
    LET a == [k \in 1..4 |-> IF ArgNames[k] = args.name THEN args.value ELSE None]
    IN  NewColorJitter(a[1], a[2], a[3], a[4])

\* ------------------------------------------------- _check_input, in isolation
InitCheckInput ==
    /\ self = None
    /\ args \in [value : ConfigValues, name : {ArgNames[k] : k \in 1..4},
                  center : {DefaultCenter, HueCenter},
                  bound : {DefaultBound, HueBound}, clip_first_on_zero : BOOLEAN]
    /\ raised = "none"
    /\ sample = <<>>
    /\ inpt = None
    /\ params = None
    /\ output = None
    /\ calls = <<>>
    /\ pc = "start"

NextCheckInput == Call_check_input \/ NewColorJitterOf

SpecCheckInput == InitCheckInput /\ [][NextCheckInput]_vars

\* ------------------------------------------------------------- image values
\* A leaf of a sample.  A plain tensor and a features.Image hold their data
\* channel by channel (C x HW); a PIL image holds it pixel by pixel (HW x C).
\* hist is the sequence of pixel operations applied to the leaf so far.
Leaf(kind, data, color_space) ==
    [kind |-> kind, data |-> data, color_space |-> color_space, hist |-> <<>>]

ImageKinds == {"Tensor", "Image", "PIL"}
IsImage(x) == x.kind \in ImageKinds

\* result[i][j] = m[j][i]
Transpose(m) == [i \in DOMAIN m[1] |-> [j \in DOMAIN m |-> m[j][i]]]

\* Channel-major pixel data with C channels of two pixels: all pixels distinct,
\* or the same two pixels in every channel.
ChannelData(C) ==
    {[c \in 1..C |-> <<10 * c + 1, 10 * c + 2>>], [c \in 1..C |-> <<7, 9>>]}

ImagesOf(C) ==
    UNION {{Leaf("Tensor", d, "NA"),
            Leaf("Image", d, IF C = 3 THEN "RGB" ELSE "OTHER"),
            Leaf("PIL", Transpose(d), "NA")} : d \in ChannelData(C)}
Images == UNION {ImagesOf(C) : C \in 1..MaxChannels}

BoundingBox == Leaf("BoundingBox", <<<<1, 2, 3, 4>>>>, "NA")
Label == Leaf("Label", <<<<5>>>>, "NA")
NonImages == {BoundingBox, Label}

\* The samples given to a transform: one image, alone or with a leaf that is none.
Samples ==
    {<<im>> : im \in Images}
        \cup {<<im, x>> : im \in Images, x \in NonImages}
        \cup {<<x, im>> : im \in Images, x \in NonImages}
\* The samples given to the colour transforms: an RGB image of each kind.
ColorSamples == {<<im>> : im \in {x \in ImagesOf(3) : x.data[1][1] = 11 /\ x.kind # "Tensor"}}

\* ---------------------------------------------------- external primitives
\* F.adjust_brightness, F.adjust_contrast, F.adjust_saturation, F.adjust_hue and
\* F.equalize: a pixel operation on an image, recorded in its history; a leaf
\* that is no image is returned as it is.
Adjust(op, x, factor) ==
    IF IsImage(x) THEN [x EXCEPT !.hist = Append(@, <<op, factor>>)] ELSE x
Equalize(x) ==
    IF IsImage(x) THEN [x EXCEPT !.hist = Append(@, <<"equalize">>)] ELSE x

\* _F.pil_to_tensor and _F.to_pil_image: HW x C to C x HW and back.
pil_to_tensor(x) == [x EXCEPT !.kind = "Tensor", !.data = Transpose(x.data)]
to_pil_image(x) == [x EXCEPT !.kind = "PIL", !.data = Transpose(x.data)]
\* features.Image.new_like(inpt, output, color_space=...)
new_like(like, out, color_space) ==
    [like EXCEPT !.data = out.data, !.hist = out.hist, !.color_space = color_space]

\* query_image: the first image of the flat sample.
query_image(smp) == smp[CHOOSE i \in DOMAIN smp :
                          IsImage(smp[i]) /\ \A j \in DOMAIN smp : IsImage(smp[j]) => i <= j]
\* get_image_dimensions(image)[0]: the number of channels.
num_channels(im) == IF im.kind = "PIL" THEN Len(im.data[1]) ELSE Len(im.data)

\* torch.randperm(n): the permutations of 0..n-1.
RandPerm(n) == {f \in [1..n -> 0..(n - 1)] : \A i, j \in 1..n : f[i] = f[j] => i = j}
\* torch.rand: draws from [0, 1).
Rand == {0, Half, One - Ulp(Half)}

\* ------------------------------------------------- ColorJitter, per call
\* torch.distributions.Uniform(left, right).sample(): the ends of the interval.
ColorJitter_generate_value(left, right) == {PyFloat(left), PyFloat(right)}

Factors(range) ==
    IF range = None THEN {None} ELSE ColorJitter_generate_value(range.lo, range.hi)

ColorJitter_get_params(t) ==
    {[fn_idx |-> f, brightness_factor |-> b, contrast_factor |-> c,
      saturation_factor |-> s, hue_factor |-> h] :
        f \in RandPerm(4), b \in Factors(t.brightness), c \in Factors(t.contrast),
        s \in Factors(t.saturation), h \in Factors(t.hue)}

\* One pass of the loop over params["fn_idx"]: st holds the running output and
\* the pixel operations invoked so far.
Invoke(st, op, factor) ==
    [output |-> Adjust(op, st.output, factor), calls |-> Append(st.calls, <<op, factor>>)]

ColorJitter_step(st, fn_id, prm) ==
    IF fn_id = 0 /\ prm.brightness_factor # None
    THEN Invoke(st, "adjust_brightness", prm.brightness_factor)
    ELSE IF fn_id = 1 /\ prm.contrast_factor # None
    THEN Invoke(st, "adjust_contrast", prm.contrast_factor)
    ELSE IF fn_id = 2 /\ prm.saturation_factor # None
    THEN Invoke(st, "adjust_saturation", prm.saturation_factor)
    ELSE IF fn_id = 3 /\ prm.hue_factor # None
    THEN Invoke(st, "adjust_hue", prm.hue_factor)
    ELSE st

RECURSIVE ColorJitter_loop(_, _, _)
ColorJitter_loop(st, prm, i) ==
    IF i > Len(prm.fn_idx) THEN st
    ELSE ColorJitter_loop(ColorJitter_step(st, prm.fn_idx[i], prm), prm, i + 1)

\* A variant that applies the operations in the order 0, 1, 2, 3 whatever fn_idx is.
ColorJitter_transform_fixed_order(x, prm) ==
    ColorJitter_loop([output |-> x, calls |-> <<>>], [prm EXCEPT !.fn_idx = <<0, 1, 2, 3>>], 1)

ColorJitter_transform(x, prm) ==
    ColorJitter_loop([output |-> x, calls |-> <<>>], prm, 1)

\* ------------------------------------------------- _RandomChannelShuffle
RandomChannelShuffle_get_params(smp) ==
    {[permutation |-> f] : f \in RandPerm(num_channels(query_image(smp)))}

\* A variant that scatters: channel permutation[i] of the result is channel i.
IndexChannels_scatter(image, permutation) ==
    [image EXCEPT !.data = [i \in DOMAIN permutation |->
        image.data[CHOOSE k \in DOMAIN permutation : permutation[k] + 1 = i]]]

\* image[..., permutation, :, :]
IndexChannels(image, permutation) ==
    [image EXCEPT !.data = [i \in DOMAIN permutation |-> image.data[permutation[i] + 1]]]

\* A variant without the early return: a leaf that is no image is rebuilt too.
RandomChannelShuffle_transform_no_guard(x, prm) ==
    IF ~IsImage(x) THEN new_like(x, x, "OTHER")
    ELSE LET image == IF x.kind = "PIL" THEN pil_to_tensor(x) ELSE x
             out == IndexChannels(image, prm.permutation)
         IN  IF x.kind = "Image" THEN new_like(x, out, "OTHER")
             ELSE IF x.kind = "PIL" THEN to_pil_image(out)
             ELSE out

RandomChannelShuffle_transform(x, prm) ==
    IF ~(x.kind \in {"Image", "PIL"} \/ x.kind = "Tensor") THEN x
    ELSE LET image == IF x.kind = "PIL" THEN pil_to_tensor(x) ELSE x
             out == IndexChannels(image, prm.permutation)
         IN  IF x.kind = "Image" THEN new_like(x, out, "OTHER")
             ELSE IF x.kind = "PIL" THEN to_pil_image(out)
             ELSE out

\* --------------------------------------------- RandomPhotometricDistort
SubNames == <<"_brightness", "_contrast", "_hue", "_saturation">>

\* The transform holding the four sub-transforms r, unless a construction raised.
RandomPhotometricDistort_new(r, p) ==
    IF AnyRaise(r) THEN FirstRaise(r)
    ELSE Return([cls |-> "RandomPhotometricDistort",
                 sub |-> [n \in {SubNames[k] : k \in 1..4} |->
                            r[CHOOSE k \in 1..4 : SubNames[k] = n].val],
                 p |-> p])

\* The four ColorJitter constructions of __init__, in its order: brightness,
\* contrast, hue, saturation; the first that raises ends it.
RandomPhotometricDistort_init(contrast, saturation, hue, brightness, p) ==
    RandomPhotometricDistort_new(
        [k \in 1..4 |->
            ColorJitter_init(IF k = 1 THEN brightness ELSE None,
                             IF k = 2 THEN contrast ELSE None,
                             IF k = 4 THEN saturation ELSE None,
                             IF k = 3 THEN hue ELSE None)],
        p)

RandomPhotometricDistort_get_params(t) ==
    {[brightness |-> u[1] < t.p, contrast1 |-> u[2] < t.p, saturation |-> u[3] < t.p,
      hue |-> u[4] < t.p, contrast2 |-> u[5] < t.p, channel_shuffle |-> u[6] < t.p,
      contrast_before |-> w < Half] : u \in [1..6 -> Rand], w \in Rand}

\* The results a call t(x) of a sub-transform can return: its own parameters
\* are sampled, then applied.
SubForward(t, name, x) ==
    IF name = "_channel_shuffle"
    THEN {RandomChannelShuffle_transform(x, q) : q \in RandomChannelShuffle_get_params(<<x>>)}
    ELSE {ColorJitter_transform(x, q).output : q \in ColorJitter_get_params(t.sub[name])}

\* A variant with saturation applied once and hue gated after it.
RandomPhotometricDistort_steps_with_hue(prm) ==
    <<<<prm.brightness, "_brightness">>,
      <<prm.contrast1 /\ prm.contrast_before, "_contrast">>,
      <<prm.saturation, "_saturation">>,
      <<prm.hue, "_hue">>,
      <<prm.contrast2 /\ ~prm.contrast_before, "_contrast">>,
      <<prm.channel_shuffle, "_channel_shuffle">>>>

\* The statements of _transform, in order: the condition of each if and the
\* sub-transform it calls.
RandomPhotometricDistort_steps(prm) ==
    <<<<prm.brightness, "_brightness">>,
      <<prm.contrast1 /\ prm.contrast_before, "_contrast">>,
      <<prm.saturation, "_saturation">>,
      <<prm.saturation, "_saturation">>,
      <<prm.contrast2 /\ ~prm.contrast_before, "_contrast">>,
      <<prm.channel_shuffle, "_channel_shuffle">>>>

\* sts: the possible pairs of running input and sub-transforms called so far.
RECURSIVE RandomPhotometricDistort_run(_, _, _, _)
RandomPhotometricDistort_run(sts, steps, t, i) ==
    IF i > Len(steps) THEN sts
    ELSE RandomPhotometricDistort_run(
             IF steps[i][1]
             THEN UNION {{[output |-> o, calls |-> Append(st.calls, steps[i][2])] :
                            o \in SubForward(t, steps[i][2], st.output)} : st \in sts}
             ELSE sts,
             steps, t, i + 1)

RandomPhotometricDistort_transform(t, x, prm) ==
    RandomPhotometricDistort_run({[output |-> x, calls |-> <<>>]},
                                 RandomPhotometricDistort_steps(prm), t, 1)

\* ------------------------------------------------------- RandomEqualize
\* A variant that returns its input.
RandomEqualize_transform_identity(x) ==
    [output |-> x, calls |-> <<>>]

RandomEqualize_transform(x) ==
    [output |-> Equalize(x), calls |-> <<<<"equalize">>>>]

\* _RandomApplyTransform.forward with the draw u of torch.rand(1): the sample is
\* returned as it is when u >= p, and transformed otherwise.
RandomApply_forward(t, x, u) ==
    IF u >= t.p THEN [output |-> x, calls |-> <<>>] ELSE RandomEqualize_transform(x)

\* ------------------------------------------------------ the configurations
\* The values a ColorJitter is constructed from: brightness and hue from every
\* shape of value, contrast and saturation from fewer.
BrightnessConfigs ==
    {None, PyFloat(0), PyFloat(Tiny), PyFloat(Quarter), PyFloat(One + Half),
     PySeq(<<PyFloat(Half), PyFloat(One + Half)>>), PySeq(<<PyInt(1), PyInt(1)>>),
     PyFloat(-Quarter), PyInt(1), PySeq(<<PyFloat(One), PyFloat(Half)>>),
     PySeq(<<PyFloat(Half)>>), PyStr(2)}
ContrastConfigs ==
    {None, PyFloat(Quarter), PySeq(<<PyFloat(-Half), PyFloat(Half)>>)}
SaturationConfigs ==
    {None, PySeq(<<PyInt(0), PyInt(2)>>), PyFloat(-Quarter)}
HueConfigs ==
    {None, PyFloat(0), PyFloat(Half + Quarter),
     PySeq(<<PyFloat(-Half), PyFloat(Half)>>), PySeq(<<PyInt(0), PyInt(0)>>),
     PyFloat(-Quarter), PySeq(<<PyFloat(-One), PyFloat(One)>>), PyStr(3)}
\* The probabilities p.
Probabilities == {0, Half, One}

\* ------------------------------------------------------------ constructors
NewColorJitterAny ==
    \E b \in BrightnessConfigs, c \in ContrastConfigs, s \in SaturationConfigs,
       h \in HueConfigs :
        NewColorJitter(b, c, s, h)

NewRandomChannelShuffle ==
    /\ pc = "start"
    /\ self' = [cls |-> "_RandomChannelShuffle"]
    /\ pc' = "ready"
    /\ UNCHANGED <<args, raised, sample, inpt, params, output, calls>>

NewRandomPhotometricDistort ==
    /\ pc = "start"
    /\ \E contrast \in {PySeq(<<PyFloat(Half), PyFloat(One + Half)>>)},
          hue \in {PySeq(<<PyFloat(-Tiny), PyFloat(Tiny)>>),
                   PySeq(<<PyFloat(-One), PyFloat(One)>>)},
          p \in Probabilities :
        Construct(RandomPhotometricDistort_init(
                      contrast, PySeq(<<PyFloat(Half), PyFloat(One + Half)>>), hue,
                      PySeq(<<PyFloat(One - Ulp(Half)), PyFloat(One + Quarter)>>), p))
    /\ UNCHANGED <<args, sample, inpt, params, output, calls>>

NewRandomEqualize ==
    /\ pc = "start"
    /\ \E p \in Probabilities : self' = [cls |-> "RandomEqualize", p |-> p]
    /\ pc' = "ready"
    /\ UNCHANGED <<args, raised, sample, inpt, params, output, calls>>

\* ------------------------------------------------------------------- calls
IsA(cls) == self # None /\ self.cls = cls

Call_ColorJitter_get_params ==
    /\ pc = "ready" /\ IsA("ColorJitter")
    /\ sample' \in ColorSamples
    /\ params' \in ColorJitter_get_params(self)
    /\ pc' = "sampled"
    /\ UNCHANGED <<self, args, raised, inpt, output, calls>>

Call_ColorJitter_transform ==
    /\ pc = "sampled" /\ IsA("ColorJitter")
    /\ \E i \in DOMAIN sample :
        LET r == ColorJitter_transform(sample[i], params)
        IN  /\ inpt' = sample[i]
            /\ output' = r.output
            /\ calls' = r.calls
    /\ pc' = "done"
    /\ UNCHANGED <<self, args, raised, sample, params>>

Call_RandomChannelShuffle_get_params ==
    /\ pc = "ready" /\ IsA("_RandomChannelShuffle")
    /\ \E smp \in Samples :
        /\ sample' = smp
        /\ params' \in RandomChannelShuffle_get_params(smp)
    /\ pc' = "sampled"
    /\ UNCHANGED <<self, args, raised, inpt, output, calls>>

Call_RandomChannelShuffle_transform ==
    /\ pc = "sampled" /\ IsA("_RandomChannelShuffle")
    /\ \E i \in DOMAIN sample :
        /\ inpt' = sample[i]
        /\ output' = RandomChannelShuffle_transform(sample[i], params)
    /\ pc' = "done"
    /\ UNCHANGED <<self, args, raised, sample, params, calls>>

Call_RandomPhotometricDistort_get_params ==
    /\ pc = "ready" /\ IsA("RandomPhotometricDistort")
    /\ sample' \in ColorSamples
    /\ params' \in RandomPhotometricDistort_get_params(self)
    /\ pc' = "sampled"
    /\ UNCHANGED <<self, args, raised, inpt, output, calls>>

Call_RandomPhotometricDistort_transform ==
    /\ pc = "sampled" /\ IsA("RandomPhotometricDistort")
    /\ \E i \in DOMAIN sample :
        \E r \in RandomPhotometricDistort_transform(self, sample[i], params) :
            /\ inpt' = sample[i]
            /\ output' = r.output
            /\ calls' = r.calls
    /\ pc' = "done"
    /\ UNCHANGED <<self, args, raised, sample, params>>

Call_RandomEqualize_forward ==
    /\ pc = "ready" /\ IsA("RandomEqualize")
    /\ \E smp \in ColorSamples, u \in Rand :
        LET r == RandomApply_forward(self, smp[1], u)
        IN  /\ sample' = smp
            /\ inpt' = smp[1]
            /\ params' = [rand |-> u]
            /\ output' = r.output
            /\ calls' = r.calls
    /\ pc' = "done"
    /\ UNCHANGED <<self, args, raised>>

\* The call has returned; the transform is ready for the next one.
CallReturn ==
    /\ pc = "done"
    /\ sample' = <<>>
    /\ inpt' = None
    /\ params' = None
    /\ output' = None
    /\ calls' = <<>>
    /\ pc' = "ready"
    /\ UNCHANGED <<self, args, raised>>

Init ==
    /\ self = None
    /\ args = None
    /\ raised = "none"
    /\ sample = <<>>
    /\ inpt = None
    /\ params = None
    /\ output = None
    /\ calls = <<>>
    /\ pc = "start"

Next ==
    \/ NewColorJitterAny
    \/ NewRandomChannelShuffle
    \/ NewRandomPhotometricDistort
    \/ NewRandomEqualize
    \/ Call_ColorJitter_get_params
    \/ Call_ColorJitter_transform
    \/ Call_RandomChannelShuffle_get_params
    \/ Call_RandomChannelShuffle_transform
    \/ Call_RandomPhotometricDistort_get_params
    \/ Call_RandomPhotometricDistort_transform
    \/ Call_RandomEqualize_forward
    \/ CallReturn

Spec == Init /\ [][Next]_vars

\* ------------------------------------------------------------------ claims
IsCheckInputCall == pc = "checked"
IsNonNegFloat(x) == x.ty = "float" /\ x.v >= 0
IsPair(x) == x.ty = "seq" /\ Len(x.elems) = 2
InBound(x, bound) ==
    /\ bound[1] <= Num(x.elems[1])
    /\ Num(x.elems[1]) <= Num(x.elems[2])
    /\ Num(x.elems[2]) <= bound[2]
\* None, a non-negative float or an in-bound ordered pair; every other value is malformed.
WellFormed(x, bound) ==
    x = None \/ IsNonNegFloat(x) \/ (IsPair(x) /\ InBound(x, bound))

\* C2, as the claim states it: for every non-negative float v, _check_input(v)
\* with center 1.0 and the default clamp flag returns (max(1 - v, 0), 1 + v),
\* and None exactly when v == 0.
C2_AsClaimed ==
    (IsCheckInputCall /\ IsNonNegFloat(args.value)
        /\ args.center = DefaultCenter /\ args.clip_first_on_zero)
    => /\ raised = "none"
       /\ output = IF args.value.v = 0 THEN None
                   ELSE PyTuple(Max(FSub(One, args.value.v), 0), FAdd(One, args.value.v))

\* C2, amended: for every non-negative float v, _check_input(v) with center 1.0
\* and the default clamp flag returns the floats (max(1 - v, 0), 1 + v), unless
\* both of them equal 1.0, in which case it returns None; that is so for v == 0.
C2_CheckInputSingle ==
    (IsCheckInputCall /\ IsNonNegFloat(args.value)
        /\ args.center = DefaultCenter /\ args.clip_first_on_zero)
    => LET lo == Max(FSub(One, args.value.v), 0)
           hi == FAdd(One, args.value.v)
       IN  /\ raised = "none"
           /\ output = IF lo = One /\ hi = One THEN None ELSE PyTuple(lo, hi)
           /\ args.value.v = 0 => output = None

\* C2 witness: a single float above 1.0 was checked and its lower end clamped to 0.
C2_Witness ==
    /\ IsCheckInputCall /\ IsNonNegFloat(args.value)
    /\ args.center = DefaultCenter /\ args.clip_first_on_zero
    /\ args.value.v = One + Half
    /\ output = PyTuple(0, 2 * One + Half)

\* C3: for every pair (lo, hi) with bound.low <= lo <= hi <= bound.high,
\* _check_input returns (lo, hi) unchanged, as floats, except that it returns
\* None when lo == hi == center; for the default centre and bound and for hue's.
C3_CheckInputPair ==
    (IsCheckInputCall /\ IsPair(args.value) /\ InBound(args.value, args.bound)
        /\ <<args.center, args.bound>> \in
              {<<DefaultCenter, DefaultBound>>, <<HueCenter, HueBound>>})
    => LET lo == Num(args.value.elems[1])
           hi == Num(args.value.elems[2])
       IN  /\ raised = "none"
           /\ output = IF lo = args.center /\ hi = args.center THEN None
                       ELSE PyTuple(lo, hi)

\* C3 witness: an in-bound pair collapsed away from the centre came back unchanged.
C3_Witness ==
    /\ IsCheckInputCall
    /\ args.value = PySeq(<<PyFloat(Half), PyFloat(Half)>>)
    /\ args.center = DefaultCenter /\ args.bound = DefaultBound
    /\ output = PyTuple(Half, Half)

\* The bound __init__ passes with the k-th argument.
SlotBound(name) == IF name = "hue" THEN HueBound ELSE DefaultBound

\* C4: _check_input raises exactly for the malformed values (a negative single
\* float, a pair out of bound or out of order, a sequence of another length,
\* any other shape), and a ColorJitter is constructed exactly when none of its
\* four arguments is malformed: a failed construction leaves no transform.
C4_CheckInputErrors ==
    /\ IsCheckInputCall => (raised # "none" <=> ~WellFormed(args.value, args.bound))
    /\ (pc \in {"ready", "failed"} /\ args # None)
        => /\ pc = "failed" <=> ~WellFormed(args.value, SlotBound(args.name))
           /\ pc = "failed" => (self = None /\ raised # "none")
           /\ pc = "ready" => (IsA("ColorJitter") /\ raised = "none")

\* C4 witness: a misordered pair within the bound made the construction fail.
C4_Witness ==
    /\ pc = "failed" /\ args # None
    /\ args.name = "contrast"
    /\ args.value = PySeq(<<PyFloat(One), PyFloat(Half)>>)
    /\ raised = "ValueError"
    /\ self = None

\* The index of each pixel operation in fn_idx, and the range that enables it.
OpNames == <<"adjust_brightness", "adjust_contrast", "adjust_saturation", "adjust_hue">>
OpIndex(op) == CHOOSE k \in 0..3 : OpNames[k + 1] = op
RangeOf(t, k) == <<t.brightness, t.contrast, t.saturation, t.hue>>[k + 1]
\* The place of k in the permutation f.
Position(f, k) == CHOOSE i \in DOMAIN f : f[i] = k
Count(seq, x) == Cardinality({i \in DOMAIN seq : seq[i] = x})
Ops(seq) == [i \in DOMAIN seq |-> seq[i][1]]

\* C1: one call of ColorJitter invokes exactly the pixel operations whose range
\* is not None, each once, in the relative order of the sampled permutation,
\* and the output carries exactly these operations in that order.
C1_JitterDispatch ==
    (pc = "done" /\ IsA("ColorJitter"))
    => /\ \A k \in 0..3 :
            Count(Ops(calls), OpNames[k + 1]) = IF RangeOf(self, k) # None THEN 1 ELSE 0
       /\ \A i, j \in DOMAIN calls :
            i < j => Position(params.fn_idx, OpIndex(calls[i][1]))
                        < Position(params.fn_idx, OpIndex(calls[j][1]))
       /\ output.hist = inpt.hist \o calls
       /\ output.kind = inpt.kind

\* C1 witness: all four ranges enabled and the permutation [3, 1, 0, 2] sampled.
C1_Witness ==
    /\ pc = "done" /\ IsA("ColorJitter")
    /\ params.fn_idx = <<3, 1, 0, 2>>
    /\ Ops(calls) = <<"adjust_hue", "adjust_contrast", "adjust_brightness", "adjust_saturation">>

\* The sub-transform calls the claim expects for the sampled gates.
ExpectedDistort(prm) ==
    (IF prm.brightness THEN <<"_brightness">> ELSE <<>>)
        \o (IF prm.contrast1 /\ prm.contrast_before THEN <<"_contrast">> ELSE <<>>)
        \o (IF prm.saturation THEN <<"_saturation", "_saturation">> ELSE <<>>)
        \o (IF prm.contrast2 /\ ~prm.contrast_before THEN <<"_contrast">> ELSE <<>>)
        \o (IF prm.channel_shuffle THEN <<"_channel_shuffle">> ELSE <<>>)
IsJitterCall(name) == name # "_channel_shuffle"
PixelOpOf(name) ==
    CASE name = "_brightness" -> "adjust_brightness"
      [] name = "_contrast" -> "adjust_contrast"
      [] name = "_saturation" -> "adjust_saturation"
      [] OTHER -> "adjust_hue"

\* C5: one call of RandomPhotometricDistort invokes brightness if gated, contrast
\* if contrast1 and contrast_before, saturation twice if gated, contrast if
\* contrast2 and not contrast_before, channel shuffle if gated, in this order
\* and nothing else: never hue, and contrast at most once; the output carries
\* the pixel operations of these calls in this order.
C5_DistortOrder ==
    (pc = "done" /\ IsA("RandomPhotometricDistort"))
    => /\ calls = ExpectedDistort(params)
       /\ Count(calls, "_hue") = 0
       /\ Count(calls, "_contrast") <= 1
       /\ Ops(output.hist) = LET js == SelectSeq(calls, IsJitterCall)
                             IN  [i \in DOMAIN js |-> PixelOpOf(js[i])]

\* C5 witness: every gate true and contrast after saturation.
C5_Witness ==
    /\ pc = "done" /\ IsA("RandomPhotometricDistort")
    /\ params.hue /\ ~params.contrast_before /\ params.contrast1
    /\ calls = <<"_brightness", "_saturation", "_saturation", "_contrast", "_channel_shuffle">>

\* The value of channel c (from 1) at pixel j of an image.
Pixel(x, c, j) == IF x.kind = "PIL" THEN x.data[j][c] ELSE x.data[c][j]
NumPixels(x) == IF x.kind = "PIL" THEN Len(x.data) ELSE Len(x.data[1])

\* C6: applied to an image with C channels and a permutation of 0..C-1,
\* _RandomChannelShuffle returns an image of the same variant whose channel i
\* is the input's channel perm[i] at every pixel; a features.Image comes back
\* with colour space OTHER.
C6_ShufflePermutes ==
    (pc = "done" /\ IsA("_RandomChannelShuffle") /\ IsImage(inpt))
    => /\ output.kind = inpt.kind
       /\ num_channels(output) = num_channels(inpt)
       /\ NumPixels(output) = NumPixels(inpt)
       /\ \A i \in 1..num_channels(inpt), j \in 1..NumPixels(inpt) :
            Pixel(output, i, j) = Pixel(inpt, params.permutation[i] + 1, j)
       /\ inpt.kind = "Image" => output.color_space = "OTHER"

\* C6 witness: a PIL image of three distinct channels shuffled by [2, 0, 1].
C6_Witness ==
    /\ pc = "done" /\ IsA("_RandomChannelShuffle")
    /\ inpt.kind = "PIL" /\ params.permutation = <<2, 0, 1>>
    /\ inpt.data[1] = <<11, 21, 31>>
    /\ output.kind = "PIL" /\ output.data[1] = <<31, 11, 21>>

\* C7: applied to a leaf that is no image, _RandomChannelShuffle returns it
\* unchanged, whatever the permutation, and raises nothing.
C7_ShufflePassThrough ==
    (pc = "done" /\ IsA("_RandomChannelShuffle") /\ ~IsImage(inpt))
    => (output = inpt /\ raised = "none")

\* C7 witness: a bounding box came back unchanged under the permutation [2, 0, 1].
C7_Witness ==
    /\ pc = "done" /\ IsA("_RandomChannelShuffle")
    /\ inpt = BoundingBox /\ output = BoundingBox
    /\ params.permutation = <<2, 0, 1>>

\* C8: a call of RandomEqualize equalizes the image when its one draw is below
\* p and returns the input unchanged otherwise: always the former with p = 1.0,
\* always the latter with p = 0.0.
C8_EqualizeGate ==
    (pc = "done" /\ IsA("RandomEqualize"))
    => LET equalized == /\ output.hist = Append(inpt.hist, <<"equalize">>)
                        /\ output.kind = inpt.kind
                        /\ calls = <<<<"equalize">>>>
           untouched == output = inpt /\ calls = <<>>
       IN  /\ IF params.rand < self.p THEN equalized ELSE untouched
           /\ self.p = One => equalized
           /\ self.p = 0 => untouched

\* C8 witness: with p = 1.0 the largest draw below 1.0 still equalizes.
C8_Witness ==
    /\ pc = "done" /\ IsA("RandomEqualize")
    /\ self.p = One /\ params.rand = One - Ulp(Half)
    /\ Ops(output.hist) = <<"equalize">>

\* Every ColorJitter there is: the transform itself, or the sub-transforms of
\* a RandomPhotometricDistort.
Jitters ==
    IF IsA("ColorJitter") THEN {self}
    ELSE IF IsA("RandomPhotometricDistort") THEN {self.sub[n] : n \in DOMAIN self.sub}
    ELSE {}

RangesOrdered ==
    \A t \in Jitters :
        /\ \A k \in 0..3 : RangeOf(t, k) # None => RangeOf(t, k).lo <= RangeOf(t, k).hi
        /\ \A k \in 0..2 : RangeOf(t, k) # None => RangeOf(t, k).lo >= 0

\* C9: every range of a constructed ColorJitter that is not None has
\* low <= high, and low >= 0 for brightness, contrast and saturation; and no
\* later call (sample-parameters, apply, return) changes a range.
RangesKept == pc \in {"ready", "sampled", "done"} => Jitters' = Jitters

C9_RangesValid == []RangesOrdered /\ [][RangesKept]_vars

\* C9 witness: a brightness range clamped at 0 is still held after a call.
C9_Witness ==
    /\ pc = "done" /\ IsA("ColorJitter")
    /\ self.brightness = PyTuple(0, 2 * One + Half)
    /\ self.hue # None /\ self.hue.lo < 0
    /\ Len(calls) > 0

HueFactorsOf(seq) == {seq[i][2].v : i \in {k \in DOMAIN seq : seq[k][1] = "adjust_hue"}}

\* C10, as the claim states it: the hue range of every constructed ColorJitter
\* lies within [-0.5, 0.5], and so does every hue factor sampled from it and
\* passed to adjust_hue.
C10_HueWithinBound ==
    /\ \A t \in Jitters :
            t.hue # None => (HueBound[1] <= t.hue.lo /\ t.hue.hi <= HueBound[2])
    /\ (pc \in {"sampled", "done"} /\ IsA("ColorJitter") /\ params.hue_factor # None)
        => (HueBound[1] <= params.hue_factor.v /\ params.hue_factor.v <= HueBound[2])
    /\ (pc = "done" /\ IsA("ColorJitter"))
        => \A f \in HueFactorsOf(calls) : HueBound[1] <= f /\ f <= HueBound[2]

====
